---------------------------- MODULE Spec2Model ----------------------------
(***************************************************************************)
(* Verification model of backend/src/executors/gemini.rs: the Gemini       *)
(* executor's patch log (WAL) facade, the dual-buffer stdout engine        *)
(* stream_gemini_chunked, the output formatter format_gemini_output, the   *)
(* log normalizer normalize_logs, the call execute_streaming of both       *)
(* executors, the follow-up prompt build_comprehensive_prompt and the      *)
(* boundary finder find_chunk_boundary.                                    *)
(*                                                                         *)
(* Text is a sequence of one-character strings.  Every character of the    *)
(* model is ASCII, so a text's byte length (str::len) is its Len.          *)
(*                                                                         *)
(* The submodules `streaming` and `config` (gemini.rs lines 5-6) are not   *)
(* part of the sources at hand; the definitions named Streaming_* and the  *)
(* configuration values are written from the specification's section 4.    *)
(***************************************************************************)
EXTENDS Integers, Sequences, FiniteSets, TLC

VARIABLES
    wal,              \* GEMINI WAL map: execution id -> [batches, next_batch_id]
    durable,          \* durable store: execution id -> text persisted so far
    pushed,           \* history: execution id -> payloads pushed, in call order
    finalized,        \* history: execution id -> finalize_execution has completed
    final_text,       \* history: execution id -> text handed to finalize_execution
    cursor,           \* poller: execution id -> after_batch_id it will pass next
    received,         \* poller: execution id -> batches received so far
    npush,            \* number of push_patch calls made so far (all ids)
    \* --- stream_gemini_chunked, one stdout reader task (lines 649-781) ---
    pc,               \* "loop": in the read loop; "exited": the loop was left
    current_message,  \* line 665
    db_buffer,        \* line 666
    entry_count,      \* line 667
    last_chunk_emit,  \* line 670, as the number of the read it was set in
    display_chunk_size,     \* line 658
    message_boundary_size,  \* line 659
    feed,             \* the chunks the subprocess may write to stdout
    nreads,           \* number of non-empty reads so far
    fmt_all,          \* history: concatenation of every formatted_chunk
    raw_all,          \* history: concatenation of every raw_chunk
    completions,      \* history: boundary crossings, [index, at]
    exit_by,          \* history: "none", "eof" or "err"
    step,             \* history: what the latest reader action did
    stderr_chunks,    \* chunks forwarded so far by the stderr reader task
    \* --- one call of format_gemini_output (lines 611-642) ---
    fmt_content,      \* argument `content`
    fmt_accumulated,  \* argument `accumulated_message`
    fmt_result,       \* the String returned
    fmt_done,         \* the call has returned
    \* --- one call of normalize_logs (lines 137-209) ---
    logs,             \* argument `logs`
    norm_result,      \* the Result returned
    norm_done,        \* the call has returned
    \* --- one call of execute_streaming (lines 108-135 and 565-594) ---
    executor,         \* "fresh" (GeminiExecutor) or "followup"
    stage,            \* the step the call will take next
    session_update,   \* "none", or how update_session_id ended: "ok" / "failed"
    child,            \* "none", "running", "dropped" or "terminated"
    result,           \* the Result returned to the caller, Pending before
    readers,          \* the tasks handed to tokio::spawn, in spawn order
    trace,            \* history: the steps taken, [step, outcome]
    \* --- one call of build_comprehensive_prompt (lines 427-477) ---
    task_description,     \* task.description, an Option<String>
    execution_history,    \* resume_context.execution_history
    cumulative_diffs,     \* resume_context.cumulative_diffs
    prompt_result,        \* the String returned
    prompt_done,          \* the call has returned
    \* --- one call of find_chunk_boundary (lines 322-325) ---
    fb_buffer,        \* argument `buffer`
    fb_max_size,      \* argument `max_size`
    fb_rule,          \* which of the allowed functions the finder is
    fb_result,        \* the values returned by the calls made so far
    fb_calls,         \* number of calls made with these arguments
    \* --- format and append over one text (lines 697-704, 730-756) ---
    sp_text,          \* the text the subprocess writes
    sp_pos,           \* number of its characters read so far
    sp_message,       \* current_message
    sp_out,           \* concatenation of every formatted_chunk
    sp_cross,         \* history: a read ended on a period before a capital
    sp_split          \* history: the message was split at a boundary

walVars == <<wal, durable, pushed, finalized, final_text, cursor, received, npush>>

engineVars == <<pc, current_message, db_buffer, entry_count, last_chunk_emit,
                display_chunk_size,
                message_boundary_size, feed, nreads, fmt_all, raw_all,
                completions, exit_by, step, stderr_chunks>>

fmtVars == <<fmt_content, fmt_accumulated, fmt_result, fmt_done>>

normVars == <<logs, norm_result, norm_done>>

promptVars == <<task_description, execution_history, cumulative_diffs,
                prompt_result, prompt_done>>

boundVars == <<fb_buffer, fb_max_size, fb_rule, fb_result, fb_calls>>

splitVars == <<sp_text, sp_pos, sp_message, sp_out, sp_cross, sp_split>>

pureVars == <<fmtVars, normVars, promptVars, boundVars, splitVars>>

runVars == <<executor, stage, session_update, child, result, readers, trace>>

vars == <<walVars, engineVars, pureVars, runVars>>

-----------------------------------------------------------------------------
(* Bounds of the model *)

MaxPushes == 3

MaxSkip == 2

Executions == {"e1", "e2"}

FinalTexts == {<<>>, <<"a">>}

-----------------------------------------------------------------------------
(* Generic helpers *)

IsPrefix(s, t) == Len(s) <= Len(t) /\ SubSeq(t, 1, Len(s)) = s

Last(s) == s[Len(s)]

RECURSIVE Concat(_)
Concat(ss) == IF ss = <<>> THEN <<>> ELSE Head(ss) \o Concat(Tail(ss))

\* The record the history variable `step` holds.
NoStep == [kind |-> "none", events |-> <<>>]

\* Option<T>
None == [some |-> FALSE, val |-> <<>>]

Some(v) == [some |-> TRUE, val |-> v]

\* No call of a pure function is under way.
InitFmtIdle ==
    /\ fmt_content = <<>>
    /\ fmt_accumulated = <<>>
    /\ fmt_result = <<>>
    /\ fmt_done = FALSE

InitNormIdle ==
    /\ logs = <<>>
    /\ norm_result = [ok |-> FALSE, entries |-> <<>>, executor_type |-> ""]
    /\ norm_done = FALSE

InitPromptIdle ==
    /\ task_description = None
    /\ execution_history = <<>>
    /\ cumulative_diffs = <<>>
    /\ prompt_result = <<>>
    /\ prompt_done = FALSE

InitBoundIdle ==
    /\ fb_buffer = <<>>
    /\ fb_max_size = 0
    /\ fb_rule = "least"
    /\ fb_result = <<>>
    /\ fb_calls = 0

InitSplitIdle ==
    /\ sp_text = <<>>
    /\ sp_pos = 0
    /\ sp_message = <<>>
    /\ sp_out = <<>>
    /\ sp_cross = FALSE
    /\ sp_split = FALSE

InitPureIdle ==
    InitFmtIdle /\ InitNormIdle /\ InitPromptIdle /\ InitBoundIdle /\ InitSplitIdle

\* Result<AsyncGroupChild, ExecutorError>
Ok == [ok |-> TRUE, error |-> "", context |-> ""]

Err(error, context) == [ok |-> FALSE, error |-> error, context |-> context]

\* The call has not returned yet.
Pending == [ok |-> FALSE, error |-> "pending", context |-> ""]

\* No call of execute_streaming is under way.
InitRunIdle ==
    /\ executor = "fresh"
    /\ stage = "idle"
    /\ session_update = "none"
    /\ child = "none"
    /\ result = Pending
    /\ readers = <<>>
    /\ trace = <<>>

\* The texts over `alphabet` of length at most n.
RECURSIVE TextsUpTo(_, _)
TextsUpTo(alphabet, n) ==
    IF n = 0 THEN {<<>>}
    ELSE LET shorter == TextsUpTo(alphabet, n - 1)
         IN  shorter \cup {Append(t, c) : t \in shorter, c \in alphabet}

\* Option<u64> for after_batch_id
NoCursor == [some |-> FALSE, val |-> 0]

After(x) == [some |-> TRUE, val |-> x]

-----------------------------------------------------------------------------
(* The patch log store, `streaming::GeminiStreaming` (spec section 4.5)    *)

\* A GeminiPatchBatch: the id is assigned by the store at append time.
PatchBatch(id, patches, content_length) ==
    [batch_id |-> id, patches |-> patches, content_length |-> content_length]

NewWalState == [batches |-> <<>>, next_batch_id |-> 0]

\* push: append a batch whose id is strictly greater than every id assigned
\* before for this execution.  `skip` >= 1 is how far the store advances
\* its counter (ids need not be gapless).
Streaming_push_patch(w, execution_process_id, patches, content_length, skip) ==
    LET st == IF execution_process_id \in DOMAIN w
              THEN w[execution_process_id] ELSE NewWalState
        id == st.next_batch_id + skip
        st2 == [batches |-> Append(st.batches,
                                   PatchBatch(id, patches, content_length)),
                next_batch_id |-> id]
    IN  [x \in DOMAIN w \cup {execution_process_id} |->
            IF x = execution_process_id THEN st2 ELSE w[x]]

\* read: all batches with id greater than the cursor, ascending; None when
\* the execution has no WAL entry.
Streaming_get_wal_batches(w, execution_process_id, after_batch_id) ==
    IF execution_process_id \notin DOMAIN w
    THEN None
    ELSE Some(SelectSeq(w[execution_process_id].batches,
                        LAMBDA b: after_batch_id.some => b.batch_id > after_batch_id.val))

\* finalize: persist the remaining text, then evict the WAL entry.
Streaming_finalize_execution(w, d, execution_process_id, final_buffer) ==
    [wal |-> [x \in DOMAIN w \ {execution_process_id} |-> w[x]],
     durable |-> [d EXCEPT ![execution_process_id] = @ \o final_buffer]]

-----------------------------------------------------------------------------
(* GeminiExecutor's facade over the store *)

push_patch_wrong_id(w, execution_process_id, patches, content_length, skip) ==
    Streaming_push_patch(w, CHOOSE x \in Executions : x # execution_process_id,
                         patches, content_length, skip)

push_patch_empty_patches(w, execution_process_id, patches, content_length, skip) ==
    Streaming_push_patch(w, execution_process_id, <<>>, content_length, skip)

push_patch(w, execution_process_id, patches, content_length, skip) ==
    Streaming_push_patch(w, execution_process_id, patches, content_length, skip)

get_wal_batches_drops_cursor(w, execution_process_id, after_batch_id) ==
    Streaming_get_wal_batches(w, execution_process_id, NoCursor)

get_wal_batches(w, execution_process_id, after_batch_id) ==
    Streaming_get_wal_batches(w, execution_process_id, after_batch_id)

finalize_execution_not_forwarded(w, d, execution_process_id, final_buffer) ==
    [wal |-> w, durable |-> d]

finalize_execution(w, d, execution_process_id, final_buffer) ==
    Streaming_finalize_execution(w, d, execution_process_id, final_buffer)

-----------------------------------------------------------------------------
(* Specification Spec: clients of the patch log *)

\* No execution has a WAL entry, nothing is stored, nobody has polled.
InitStores ==
    /\ wal = <<>>
    /\ durable = [e \in Executions |-> <<>>]
    /\ pushed = [e \in Executions |-> <<>>]
    /\ finalized = [e \in Executions |-> FALSE]
    /\ final_text = [e \in Executions |-> <<>>]
    /\ cursor = [e \in Executions |-> NoCursor]
    /\ received = [e \in Executions |-> <<>>]
    /\ npush = 0

\* No reader task runs.
InitEngineIdle ==
    /\ pc = "exited"
    /\ current_message = <<>>
    /\ db_buffer = <<>>
    /\ entry_count = 0
    /\ last_chunk_emit = 0
    /\ display_chunk_size = 0
    /\ message_boundary_size = 0
    /\ feed = {}
    /\ nreads = 0
    /\ fmt_all = <<>>
    /\ raw_all = <<>>
    /\ completions = <<>>
    /\ exit_by = "none"
    /\ step = NoStep
    /\ stderr_chunks = 0

InitWal == InitStores /\ InitEngineIdle /\ InitPureIdle /\ InitRunIdle

\* One push_patch call.  The payload of the n-th call is n, so any two
\* batches are told apart.  The only caller, emit_message_patch, runs in
\* the stdout engine, which stops after finalize_execution (lines 694-695).
Push(e) ==
    /\ npush < MaxPushes
    /\ ~finalized[e]
    /\ \E skip \in 1..MaxSkip :
          wal' = push_patch(wal, e, <<npush + 1>>, npush + 1, skip)
    /\ pushed' = [pushed EXCEPT ![e] = Append(@, <<npush + 1>>)]
    /\ npush' = npush + 1
    /\ UNCHANGED <<durable, finalized, final_text, cursor, received, engineVars, pureVars, runVars>>

\* One poll of a UI client: it passes back the highest batch id it has seen.
Poll(e) ==
    LET r == get_wal_batches(wal, e, cursor[e]) IN
    /\ r.some
    /\ r.val # <<>>
    /\ received' = [received EXCEPT ![e] = @ \o r.val]
    /\ cursor' = [cursor EXCEPT ![e] = After(Last(r.val).batch_id)]
    /\ UNCHANGED <<wal, durable, pushed, finalized, final_text, npush, engineVars, pureVars, runVars>>

Finalize(e) ==
    /\ ~finalized[e]
    /\ \E text \in FinalTexts :
          LET r == finalize_execution(wal, durable, e, text) IN
          /\ wal' = r.wal
          /\ durable' = r.durable
          /\ final_text' = [final_text EXCEPT ![e] = text]
    /\ finalized' = [finalized EXCEPT ![e] = TRUE]
    /\ UNCHANGED <<pushed, cursor, received, npush, engineVars, pureVars, runVars>>

NextWal ==
    \/ \E e \in Executions : Push(e)
    \/ \E e \in Executions : Poll(e)
    \/ \E e \in Executions : Finalize(e)

Spec == InitWal /\ [][NextWal]_vars

-----------------------------------------------------------------------------
(* Claims about the patch log *)

Payloads(bs) == [i \in 1..Len(bs) |-> bs[i].patches]

StrictlyIncreasingIds(bs) ==
    \A i, j \in 1..Len(bs) : i < j => bs[i].batch_id < bs[j].batch_id

Live(e) == pushed[e] # <<>> /\ ~finalized[e]

C1_ReadAll ==
    \A e \in Executions : Live(e) =>
        LET r0 == get_wal_batches(wal, e, After(0))
            rn == get_wal_batches(wal, e, NoCursor)
        IN  /\ r0.some /\ rn = r0
            /\ Payloads(r0.val) = pushed[e]
            /\ StrictlyIncreasingIds(r0.val)
            /\ \A i \in 1..Len(r0.val) :
                  r0.val[i].content_length = pushed[e][i][1]

C1_Immutable ==
    \A e \in Executions : (Live(e) /\ Live(e)') =>
        LET old == get_wal_batches(wal, e, After(0)).val
            new == get_wal_batches(wal', e, After(0)).val
        IN  IsPrefix(old, new)

\* C1: before finalize, a read with after=0 (or with no cursor) returns all
\* pushed batches in push order with strictly increasing ids, and a later
\* push never changes or reorders a batch already appended.
C1_PushOrder == [](C1_ReadAll) /\ [][C1_Immutable]_vars

C1_Witness ==
    \E e \in Executions : Live(e) /\ Len(pushed[e]) >= 3 /\ wal[e].next_batch_id > 3

MaxId == MaxPushes * MaxSkip

Cursors == {NoCursor} \cup {After(x) : x \in 0..MaxId}

Range(s) == {s[i] : i \in 1..Len(s)}

C2_CursorRead ==
    \A e \in DOMAIN wal : \A x \in 0..MaxId :
        LET r == get_wal_batches(wal, e, After(x)) IN
        /\ r.some
        /\ \A i \in 1..Len(r.val) : r.val[i].batch_id > x
        /\ StrictlyIncreasingIds(r.val)
        /\ Range(r.val) = {b \in Range(wal[e].batches) : b.batch_id > x}

C2_PollerPrefix ==
    \A e \in Executions :
        /\ IsPrefix(Payloads(received[e]), pushed[e])
        /\ StrictlyIncreasingIds(received[e])

C2_PollStep ==
    \A e \in Executions :
        received'[e] # received[e] => Payloads(received'[e]) = pushed[e]

\* C2: a read with after=X returns exactly the resident batches with id > X,
\* ascending, and a poller that passes back the highest id it has seen gets
\* every pushed batch exactly once, in push order, whenever it polls before
\* finalize.
C2_CursorResume ==
    [](C2_CursorRead /\ C2_PollerPrefix) /\ [][C2_PollStep]_vars

C2_Witness ==
    \E e \in Executions :
        /\ Live(e)
        /\ Len(received[e]) = 2
        /\ Len(pushed[e]) = 3
        /\ cursor[e].val > 2

C3_Absent ==
    \A e \in Executions :
        ((pushed[e] = <<>> /\ ~finalized[e]) \/ finalized[e]) =>
            \A c \in Cursors : get_wal_batches(wal, e, c) = None

C3_Persisted ==
    \A e \in Executions : finalized[e] => durable[e] = final_text[e]

\* C3: a read reports absent for an id never pushed to and for every read
\* after finalize_execution, whatever the cursor; finalize persists the
\* remaining text and evicts the entry.
C3_AbsentAfterFinalize == C3_Absent /\ C3_Persisted

C3_Witness ==
    \E e \in Executions :
        finalized[e] /\ Len(pushed[e]) >= 2 /\ final_text[e] # <<>>

C4_DistinctIncreasing ==
    \A e \in DOMAIN wal :
        LET bs == wal[e].batches IN
        /\ \A i \in 1..Len(bs) : i < Len(bs) => bs[i].batch_id < bs[i + 1].batch_id
        /\ Cardinality({bs[i].batch_id : i \in 1..Len(bs)}) = Len(bs)
        /\ Payloads(bs) = pushed[e]

C4_Isolated ==
    \A e \in Executions : pushed'[e] # pushed[e] =>
        \A x \in Executions \ {e} :
            /\ (x \in DOMAIN wal') = (x \in DOMAIN wal)
            /\ x \in DOMAIN wal => wal'[x] = wal[x]

\* C4: under any interleaving of pushes and reads, the batches of one
\* execution carry pairwise distinct ids that increase in WAL order, and a
\* push for one execution leaves every other execution's WAL as it was.
C4_SerializedIds == [](C4_DistinctIncreasing) /\ [][C4_Isolated]_vars

C4_Witness ==
    /\ Len(pushed["e1"]) = 2 /\ Len(pushed["e2"]) = 1
    /\ pushed["e1"][1] = <<1>> /\ pushed["e2"][1] = <<2>>
    /\ "e1" \in DOMAIN wal /\ "e2" \in DOMAIN wal
    /\ received["e2"] # <<>>

-----------------------------------------------------------------------------
(* Characters and text *)

UpperAlpha == {"A", "B", "C", "D", "E", "F", "G", "H", "I", "J", "K", "L", "M",
               "N", "O", "P", "Q", "R", "S", "T", "U", "V", "W", "X", "Y", "Z"}

\* c.is_uppercase() && c.is_alphabetic() (lines 620, 635)
IsUpperAlpha(c) == c \in UpperAlpha

\* char::is_whitespace, as str::trim uses it
Whitespace == {" ", "\n", "\t", "\r"}

\* s.trim().is_empty() (line 390)
TrimIsEmpty(s) == \A i \in 1..Len(s) : s[i] \in Whitespace

-----------------------------------------------------------------------------
(* format_gemini_output (lines 611-642) *)

RECURSIVE format_loop_no_upper_check(_, _)
format_loop_no_upper_check(chars, i) ==
    IF i > Len(chars) THEN <<>>
    ELSE <<chars[i]>>
         \o (IF chars[i] = "." /\ i + 1 <= Len(chars) THEN <<"\n">> ELSE <<>>)
         \o format_loop_no_upper_check(chars, i + 1)

\* The loop of lines 629-639 from index i on (i is 1-based here).
RECURSIVE format_loop(_, _)
format_loop(chars, i) ==
    IF i > Len(chars) THEN <<>>
    ELSE <<chars[i]>>
         \o (IF chars[i] = "." /\ i + 1 <= Len(chars) /\ IsUpperAlpha(chars[i + 1])
             THEN <<"\n">> ELSE <<>>)
         \o format_loop(chars, i + 1)

\* The cross-chunk test without ends_with_period.
format_gemini_output_cross_without_period(content, accumulated_message) ==
    LET starts_with_capital == content # <<>> /\ IsUpperAlpha(content[1])
        cross == /\ accumulated_message # <<>>
                 /\ content # <<>>
                 /\ starts_with_capital
    IN  (IF cross THEN <<"\n">> ELSE <<>>) \o format_loop(content, 1)

format_gemini_output_no_cross_check(content, accumulated_message) ==
    format_loop(content, 1)

format_gemini_output(content, accumulated_message) ==
    LET ends_with_period ==
            accumulated_message # <<>> /\ Last(accumulated_message) = "."
        starts_with_capital == content # <<>> /\ IsUpperAlpha(content[1])
        cross == /\ accumulated_message # <<>>
                 /\ content # <<>>
                 /\ ends_with_period
                 /\ starts_with_capital
    IN  (IF cross THEN <<"\n">> ELSE <<>>) \o format_loop(content, 1)

-----------------------------------------------------------------------------
(* Patch emission (lines 337-398) *)

\* One JSON patch; its value is an assistant_message entry with `content`.
Patch(op, index, content) == [op |-> op, index |-> index, content |-> content]

\* What a call leaves behind: the patch vectors handed to push_patch, in
\* call order, and the entry counter.
Emitted(pushes, n) == [pushes |-> pushes, entry_count |-> n]

emit_message_patch(message, count, force_new_message) ==
    IF message = <<>> THEN Emitted(<<>>, count)
    ELSE IF force_new_message /\ count > 0
         THEN Emitted(<<Patch("add", count, message)>>, count + 1)
         ELSE LET n == IF count = 0 THEN 1 ELSE count
              IN  Emitted(<<Patch("replace", n - 1, message)>>, n)

emit_final_content_no_trim(remaining_content, count) ==
    IF remaining_content # <<>>
    THEN emit_message_patch(remaining_content, count, FALSE)
    ELSE Emitted(<<>>, count)

emit_final_content(remaining_content, count) ==
    IF ~TrimIsEmpty(remaining_content)
    THEN emit_message_patch(remaining_content, count, FALSE)
    ELSE Emitted(<<>>, count)

-----------------------------------------------------------------------------
(* `streaming::GeminiStreaming`: boundary finder and durable flush         *)
(* (spec sections 4.2 and 4.3)                                             *)

\* 0-based positions p <= max_size of buffer that hold a character of cs.
PositionsOf(buffer, max_size, cs) ==
    {p \in 0..max_size : p < Len(buffer) /\ buffer[p + 1] \in cs}

Max(S) == CHOOSE x \in S : \A y \in S : y <= x

SentenceEnd == {".", "!", "?"}

\* The preference order of section 4.3: the last newline at or before the
\* limit, else the last sentence end at or before it, else the limit.
PreferredBoundary(buffer, max_size) ==
    IF PositionsOf(buffer, max_size, {"\n"}) # {}
    THEN Max(PositionsOf(buffer, max_size, {"\n"}))
    ELSE IF PositionsOf(buffer, max_size, SentenceEnd) # {}
         THEN Max(PositionsOf(buffer, max_size, SentenceEnd))
         ELSE max_size

\* The set of results the specification allows.  For a text longer than the
\* limit the preference order decides.  For a text that is not longer the
\* specification only asks for an index <= the text's length: the finder
\* may apply the same order or answer that there is nothing to split.
Streaming_find_chunk_boundary(buffer, max_size) ==
    IF Len(buffer) > max_size
    THEN {PreferredBoundary(buffer, max_size)}
    ELSE {PreferredBoundary(buffer, Len(buffer)), Len(buffer)}

\* The finder with the two preferences of section 4.3 exchanged.
find_chunk_boundary_sentence_first(buffer, max_size) ==
    IF PositionsOf(buffer, max_size, SentenceEnd) # {}
    THEN {Max(PositionsOf(buffer, max_size, SentenceEnd))}
    ELSE Streaming_find_chunk_boundary(buffer, max_size)

find_chunk_boundary(buffer, max_size) ==
    Streaming_find_chunk_boundary(buffer, max_size)

\* The outcomes of one maybe_flush_chunk call.  The thresholds are the
\* store's own, so a call may write nothing, the whole buffer, or the buffer
\* up to its last newline or sentence end ("same boundary detection", line
\* 761), keeping the rest for a later call.
FlushCuts(buffer) ==
    {0, Len(buffer)} \cup
    (IF PositionsOf(buffer, Len(buffer), {"\n"} \cup SentenceEnd) # {}
     THEN {Max(PositionsOf(buffer, Len(buffer), {"\n"} \cup SentenceEnd)) + 1}
     ELSE {})

Streaming_maybe_flush_chunk(buffer) ==
    {[written |-> SubSeq(buffer, 1, k),
      buffer |-> SubSeq(buffer, k + 1, Len(buffer))] : k \in FlushCuts(buffer)}

maybe_flush_chunk(buffer) == Streaming_maybe_flush_chunk(buffer)

-----------------------------------------------------------------------------
(* stream_gemini_chunked (lines 649-781) *)

\* Step 1 with the size test alone.
chunk_emission_without_latency(message, count, display, elapsed) ==
    IF Len(message) >= display
    THEN emit_message_patch(message, count, FALSE)
    ELSE Emitted(<<>>, count)

\* Step 1 calling emit_message_patch with force_new_message = true.
chunk_emission_forces_new_message(message, count, display, elapsed) ==
    IF Len(message) >= display \/ (elapsed /\ message # <<>>)
    THEN emit_message_patch(message, count, TRUE)
    ELSE Emitted(<<>>, count)

\* Step 1 of an iteration, lines 706-720.  `elapsed` is
\* last_chunk_emit.elapsed() >= max_latency.
chunk_emission(message, count, display, elapsed) ==
    LET should_emit_chunk ==
            Len(message) >= display \/ (elapsed /\ message # <<>>)
    IN  IF should_emit_chunk
        THEN emit_message_patch(message, count, FALSE)
        ELSE Emitted(<<>>, count)

\* Step 2 without its flush, lines 730-758, for a boundary the finder gave.
message_boundary_no_increment(message, count, boundary) ==
    IF boundary > 0 /\ boundary < Len(message)
    THEN LET em == emit_message_patch(SubSeq(message, 1, boundary), count, FALSE)
         IN  [split |-> TRUE, pushes |-> em.pushes,
              current_message |-> SubSeq(message, boundary + 1, Len(message)),
              entry_count |-> em.entry_count]
    ELSE [split |-> FALSE, pushes |-> <<>>,
          current_message |-> message, entry_count |-> count]

\* Step 2 with the new message starting one byte after the split point.
message_boundary_skips_byte(message, count, boundary) ==
    IF boundary > 0 /\ boundary < Len(message)
    THEN LET em == emit_message_patch(SubSeq(message, 1, boundary), count, FALSE)
         IN  [split |-> TRUE, pushes |-> em.pushes,
              current_message |-> SubSeq(message, boundary + 2, Len(message)),
              entry_count |-> em.entry_count + 1]
    ELSE [split |-> FALSE, pushes |-> <<>>,
          current_message |-> message, entry_count |-> count]

\* Step 2 with a split point at the end of the buffer taken as usable.
message_boundary_accepts_end(message, count, boundary) ==
    IF boundary > 0
    THEN LET em == emit_message_patch(SubSeq(message, 1, boundary), count, FALSE)
         IN  [split |-> TRUE, pushes |-> em.pushes,
              current_message |-> SubSeq(message, boundary + 1, Len(message)),
              entry_count |-> em.entry_count + 1]
    ELSE [split |-> FALSE, pushes |-> <<>>,
          current_message |-> message, entry_count |-> count]

\* Step 2 moving the entry counter on by two.
message_boundary_skips_entry(message, count, boundary) ==
    IF boundary > 0 /\ boundary < Len(message)
    THEN LET em == emit_message_patch(SubSeq(message, 1, boundary), count, FALSE)
         IN  [split |-> TRUE, pushes |-> em.pushes,
              current_message |-> SubSeq(message, boundary + 1, Len(message)),
              entry_count |-> em.entry_count + 2]
    ELSE [split |-> FALSE, pushes |-> <<>>,
          current_message |-> message, entry_count |-> count]

\* Step 2 publishing the remainder as the completed message.
message_boundary_publishes_rest(message, count, boundary) ==
    IF boundary > 0 /\ boundary < Len(message)
    THEN LET em == emit_message_patch(SubSeq(message, boundary + 1, Len(message)),
                                      count, FALSE)
         IN  [split |-> TRUE, pushes |-> em.pushes,
              current_message |-> SubSeq(message, boundary + 1, Len(message)),
              entry_count |-> em.entry_count + 1]
    ELSE [split |-> FALSE, pushes |-> <<>>,
          current_message |-> message, entry_count |-> count]

\* Step 2 with the new message starting at the last byte of the completed one.
message_boundary_repeats_byte(message, count, boundary) ==
    IF boundary > 0 /\ boundary < Len(message)
    THEN LET em == emit_message_patch(SubSeq(message, 1, boundary), count, FALSE)
         IN  [split |-> TRUE, pushes |-> em.pushes,
              current_message |-> SubSeq(message, boundary, Len(message)),
              entry_count |-> em.entry_count + 1]
    ELSE [split |-> FALSE, pushes |-> <<>>,
          current_message |-> message, entry_count |-> count]

message_boundary(message, count, boundary) ==
    IF boundary > 0 /\ boundary < Len(message)
    THEN LET completed_message == SubSeq(message, 1, boundary)
             remaining_content == SubSeq(message, boundary + 1, Len(message))
             em == emit_message_patch(completed_message, count, FALSE)
         IN  [split |-> TRUE, pushes |-> em.pushes,
              current_message |-> remaining_content,
              entry_count |-> em.entry_count + 1]
    ELSE [split |-> FALSE, pushes |-> <<>>,
          current_message |-> message, entry_count |-> count]

\* push_patch for each patch vector of `pushes`, in order.
RECURSIVE PushAll(_, _, _)
PushAll(w, e, pushes) ==
    IF pushes = <<>> THEN w
    ELSE PushAll(push_patch(w, e, <<Head(pushes)>>, Len(Head(pushes).content), 1),
                 e, Tail(pushes))

PushEvents(pushes) ==
    [i \in 1..Len(pushes) |->
        [ev |-> "push", op |-> pushes[i].op, index |-> pushes[i].index]]

FlushEvent == [ev |-> "flush", op |-> "", index |-> 0]

FinalizeEvent == [ev |-> "finalize", op |-> "", index |-> 0]

Payload(pushes) == [i \in 1..Len(pushes) |-> <<pushes[i]>>]

\* The execution the modelled stdout reader serves.
EngineId == "e1"

MaxReads == 3

MaxStderr == 1

\* The reads of the end-to-end scenario of the specification's section 8.
ExampleReads == << <<"H", "e", "l", "l", "o", " ", "t", "h", "e", "r", "e", ".">>,
                   <<"W", "o", "r", "l", "d", ".", " ">>,
                   <<"E", "n", "d">> >>

SmallChunks == { <<"B", ".">>, <<" ">>, <<"d", "\n">>, <<"x", ".", "B">> }

\* A scenario: display_chunk_size and message_boundary_size as `config` may
\* give them, and the chunks the subprocess may write.
Scenarios == {[display |-> 5, message |-> 30,
               feed |-> Range(ExampleReads) \cup {<<" ">>}],
              [display |-> 2, message |-> 4, feed |-> SmallChunks],
              [display |-> 4, message |-> 3, feed |-> SmallChunks]}

InitEngine ==
    /\ InitStores
    /\ pc = "loop"
    /\ current_message = <<>>
    /\ db_buffer = <<>>
    /\ entry_count = 0
    /\ last_chunk_emit = 0
    /\ \E c \in Scenarios :
          /\ display_chunk_size = c.display
          /\ message_boundary_size = c.message
          /\ feed = c.feed
    /\ nreads = 0
    /\ fmt_all = <<>>
    /\ raw_all = <<>>
    /\ completions = <<>>
    /\ exit_by = "none"
    /\ step = NoStep
    /\ stderr_chunks = 0
    /\ InitPureIdle
    /\ InitRunIdle

\* The Ok(n) arm, lines 697-764: one non-empty read and all it triggers.
ReadChunk ==
    /\ pc = "loop"
    /\ nreads < MaxReads
    /\ \E raw_chunk \in feed, elapsed \in BOOLEAN :
        LET formatted_chunk == format_gemini_output(raw_chunk, current_message)
            message1 == current_message \o formatted_chunk
            db1 == db_buffer \o formatted_chunk
            em1 == chunk_emission(message1, entry_count, display_chunk_size, elapsed)
            should_start_new_message == Len(message1) >= message_boundary_size
        IN  \E boundary \in (IF should_start_new_message
                             THEN find_chunk_boundary(message1, message_boundary_size)
                             ELSE {0}) :
            LET mb == message_boundary(message1, em1.entry_count, boundary)
                pushes == em1.pushes \o mb.pushes
            IN  \E f1 \in (IF mb.split THEN maybe_flush_chunk(db1)
                           ELSE {[written |-> <<>>, buffer |-> db1]}) :
                \E f2 \in maybe_flush_chunk(f1.buffer) :
                    /\ wal' = PushAll(wal, EngineId, pushes)
                    /\ pushed' = [pushed EXCEPT ![EngineId] = @ \o Payload(pushes)]
                    /\ durable' = [durable EXCEPT
                                      ![EngineId] = @ \o f1.written \o f2.written]
                    /\ current_message' = mb.current_message
                    /\ db_buffer' = f2.buffer
                    /\ entry_count' = mb.entry_count
                    /\ last_chunk_emit' = IF em1.pushes # <<>>
                                          THEN nreads + 1
                                          ELSE last_chunk_emit
                    /\ completions' =
                          IF mb.split
                          THEN Append(completions,
                                      [index |-> Last(mb.pushes).index,
                                       at |-> Len(pushed[EngineId]) + Len(pushes)])
                          ELSE completions
                    /\ step' = [kind |-> "read",
                                events |-> PushEvents(em1.pushes)
                                           \o PushEvents(mb.pushes)
                                           \o (IF mb.split THEN <<FlushEvent>> ELSE <<>>)
                                           \o <<FlushEvent>>,
                                elapsed |-> elapsed,
                                finder |-> IF should_start_new_message
                                           THEN Some(boundary) ELSE None]
                    /\ fmt_all' = fmt_all \o formatted_chunk
                    /\ raw_all' = raw_all \o raw_chunk
    /\ nreads' = nreads + 1
    /\ UNCHANGED <<finalized, final_text, cursor, received, npush, pc,
                   display_chunk_size, message_boundary_size, feed, exit_by,
                   stderr_chunks, pureVars, runVars>>

\* The Ok(0) arm leaving the loop after the final patch, without the call
\* of finalize_execution.
ReadEof_without_finalize ==
    /\ pc = "loop"
    /\ LET em == emit_final_content(current_message, entry_count)
       IN  /\ wal' = PushAll(wal, EngineId, em.pushes)
           /\ pushed' = [pushed EXCEPT ![EngineId] = @ \o Payload(em.pushes)]
           /\ entry_count' = em.entry_count
           /\ step' = [kind |-> "eof", events |-> PushEvents(em.pushes)]
    /\ pc' = "exited"
    /\ exit_by' = "eof"
    /\ UNCHANGED <<durable, finalized, final_text, cursor, received, npush,
                   current_message, db_buffer, last_chunk_emit, display_chunk_size,
                   message_boundary_size, feed, nreads, fmt_all, raw_all,
                   completions, stderr_chunks, pureVars, runVars>>

\* The Ok(0) arm, lines 684-696.
ReadEof ==
    /\ pc = "loop"
    /\ LET em == emit_final_content(current_message, entry_count)
           r == finalize_execution(PushAll(wal, EngineId, em.pushes),
                                   durable, EngineId, db_buffer)
       IN  /\ wal' = r.wal
           /\ durable' = r.durable
           /\ pushed' = [pushed EXCEPT ![EngineId] = @ \o Payload(em.pushes)]
           /\ entry_count' = em.entry_count
           /\ step' = [kind |-> "eof",
                       events |-> PushEvents(em.pushes) \o <<FinalizeEvent>>]
    /\ finalized' = [finalized EXCEPT ![EngineId] = TRUE]
    /\ final_text' = [final_text EXCEPT ![EngineId] = db_buffer]
    /\ pc' = "exited"
    /\ exit_by' = "eof"
    /\ UNCHANGED <<cursor, received, npush, current_message, db_buffer, last_chunk_emit,
                   display_chunk_size, message_boundary_size, feed, nreads,
                   fmt_all, raw_all, completions, stderr_chunks, pureVars, runVars>>

ReadErr_finalizes ==
    /\ pc = "loop"
    /\ LET r == finalize_execution(wal, durable, EngineId, db_buffer)
       IN  wal' = r.wal /\ durable' = r.durable
    /\ pc' = "exited"
    /\ exit_by' = "err"
    /\ step' = [kind |-> "err", events |-> <<>>]
    /\ UNCHANGED <<pushed, finalized, final_text, cursor, received, npush,
                   current_message, db_buffer, last_chunk_emit, entry_count, display_chunk_size,
                   message_boundary_size, feed, nreads, fmt_all, raw_all,
                   completions, stderr_chunks, pureVars, runVars>>

\* The Err arm, lines 765-772: log and leave the loop.
ReadErr ==
    /\ pc = "loop"
    /\ pc' = "exited"
    /\ exit_by' = "err"
    /\ step' = [kind |-> "err", events |-> <<>>]
    /\ UNCHANGED <<walVars, current_message, db_buffer, last_chunk_emit, entry_count,
                   display_chunk_size, message_boundary_size, feed, nreads,
                   fmt_all, raw_all, completions, stderr_chunks, pureVars, runVars>>

\* The stderr reader task (lines 291-297) forwards one chunk.  It owns its
\* state; nothing of the stdout reader is read or written.
StderrRead ==
    /\ stderr_chunks < MaxStderr
    /\ stderr_chunks' = stderr_chunks + 1
    /\ step' = [kind |-> "stderr", events |-> <<>>]
    /\ UNCHANGED <<walVars, pc, current_message, db_buffer, last_chunk_emit, entry_count,
                   display_chunk_size, message_boundary_size, feed, nreads,
                   fmt_all, raw_all, completions, exit_by, pureVars, runVars>>

NextEngine == ReadChunk \/ ReadEof \/ ReadErr

SpecEngine == InitEngine /\ [][NextEngine]_vars

\* Both reader tasks of one execution (setup_streaming, lines 284-297).
NextReaders == ReadChunk \/ ReadEof \/ ReadErr \/ StderrRead

SpecReaders == InitEngine /\ [][NextReaders]_vars

-----------------------------------------------------------------------------
(* Claims about the stdout engine *)

\* The patches pushed so far for the engine's execution, in push order.
Patches == [i \in 1..Len(pushed[EngineId]) |-> pushed[EngineId][i][1]]

PushEventsOf(events) == SelectSeq(events, LAMBDA x : x.ev = "push")

FinalizeEventsOf(events) == SelectSeq(events, LAMBDA x : x.ev = "finalize")

C5_EofCommon ==
    /\ pc = "exited"
    /\ Len(FinalizeEventsOf(step.events)) = 1
    /\ Last(step.events) = FinalizeEvent
    /\ finalized[EngineId]
    /\ final_text[EngineId] = db_buffer
    /\ durable[EngineId] = fmt_all
    /\ EngineId \notin DOMAIN wal

C5_FinalPatchFor(message) ==
    /\ Len(PushEventsOf(step.events)) = 1
    /\ step.events[1].ev = "push"
    /\ Patches # <<>>
    /\ Last(Patches) = Patch("replace", entry_count - 1, message)

\* The statement of C5 as written: a final patch whenever the message
\* buffer is non-empty.
C5_FinalPatchIfNonEmpty ==
    step.kind = "eof" =>
        /\ C5_EofCommon
        /\ current_message # <<>> => C5_FinalPatchFor(current_message)

C5_EofState ==
    step.kind = "eof" =>
        /\ C5_EofCommon
        /\ IF TrimIsEmpty(current_message)
           THEN PushEventsOf(step.events) = <<>>
           ELSE C5_FinalPatchFor(current_message)

C5_NoPushAfterFinalize ==
    finalized[EngineId] => (pushed' = pushed /\ wal' = wal /\ durable' = durable)

\* C5 (amended): on end-of-stream the reader pushes a final patch with the
\* message buffer exactly when the buffer holds a non-whitespace character,
\* then calls finalize_execution once with the remaining durable text, which
\* is persisted and the WAL entry evicted, and pushes nothing afterwards.
C5_EndOfStream == [](C5_EofState) /\ [][C5_NoPushAfterFinalize]_vars

C5_Witness ==
    /\ step.kind = "eof"
    /\ ~TrimIsEmpty(current_message)
    /\ db_buffer # <<>>
    /\ durable[EngineId] # db_buffer
    /\ Len(Patches) >= 3

C6_AfterErr ==
    exit_by = "err" =>
        /\ pc = "exited"
        /\ ~finalized[EngineId]
        /\ durable[EngineId] \o db_buffer = fmt_all
        /\ Patches # <<>> =>
              LET r == get_wal_batches(wal, EngineId, NoCursor)
              IN  r.some /\ Payloads(r.val) = pushed[EngineId]
        /\ stderr_chunks < MaxStderr => ENABLED StderrRead

C6_ErrStep ==
    /\ (exit_by = "none" /\ exit_by' = "err") =>
          /\ wal' = wal /\ durable' = durable /\ pushed' = pushed
          /\ finalized' = finalized
          /\ stderr_chunks' = stderr_chunks
          /\ step'.events = <<>>
    /\ exit_by = "err" => (wal' = wal /\ durable' = durable /\ pushed' = pushed)

\* C6: a failed read ends the stdout loop with no further patch, no flush
\* and no finalize; what was written stays readable, the text held only in
\* the local buffers never reaches the stores, and the stderr reader goes on.
C6_ReadError == [](C6_AfterErr) /\ [][C6_ErrStep]_vars

C6_Witness ==
    /\ exit_by = "err"
    /\ db_buffer # <<>>
    /\ durable[EngineId] # <<>>
    /\ Len(Patches) >= 2
    /\ step.kind = "stderr"

\* C7: after a boundary crossing has completed entry index N, no later
\* patch is an add at /entries/N and every later patch targets N+1 or more.
C7_IndexIntegrity ==
    \A k \in 1..Len(completions) :
        LET c == completions[k] IN
        /\ Patches[c.at].index = c.index
        /\ \A i \in (c.at + 1)..Len(Patches) :
              /\ Patches[i].index >= c.index + 1
              /\ ~(Patches[i].op = "add" /\ Patches[i].index = c.index)

C7_Witness ==
    /\ Len(completions) >= 2
    /\ Len(Patches) > completions[2].at
    /\ completions[1].index = 0

SingleMessageRun == exit_by = "eof" /\ Len(fmt_all) < message_boundary_size

\* The formatted concatenation of all reads.
WholeFormat == format_gemini_output(raw_all, <<>>)

C8_AllReplaceZero ==
    \A i \in 1..Len(Patches) : Patches[i].op = "replace" /\ Patches[i].index = 0

\* The statement of C8 as written: the last patch holds the formatted
\* concatenation of all reads.
C8_LastPatchIsWhole ==
    SingleMessageRun =>
        /\ C8_AllReplaceZero
        /\ Patches # <<>> => Last(Patches).content = WholeFormat
        /\ durable[EngineId] = WholeFormat

\* C8 (amended): in a single-message run every patch is a replace of
\* /entries/0, the durable store holds the formatted concatenation of all
\* reads after end-of-stream, and the last patch holds it too when it has a
\* non-whitespace character; otherwise every patch holds a prefix of it.
C8_SingleMessage ==
    SingleMessageRun =>
        /\ C8_AllReplaceZero
        /\ durable[EngineId] = WholeFormat
        /\ IF TrimIsEmpty(WholeFormat)
           THEN \A i \in 1..Len(Patches) : IsPrefix(Patches[i].content, WholeFormat)
           ELSE Patches # <<>> /\ Last(Patches).content = WholeFormat

ExampleFinal == <<"H", "e", "l", "l", "o", " ", "t", "h", "e", "r", "e", ".", "\n",
                  "W", "o", "r", "l", "d", ".", " ", "E", "n", "d">>

C8_Witness ==
    /\ SingleMessageRun
    /\ display_chunk_size = 5
    /\ raw_all = Concat(ExampleReads)
    /\ nreads = 3
    /\ Len(Patches) >= 4
    /\ Last(Patches).content = ExampleFinal
    /\ durable[EngineId] = ExampleFinal

-----------------------------------------------------------------------------
(* Specification SpecFormat: one call of format_gemini_output *)

MaxContentLen == 3

MaxAccLen == 2

FormatChars == {"a", "B", ".", " ", "\n"}

InitFormat ==
    /\ InitStores /\ InitEngineIdle /\ InitRunIdle
    /\ InitNormIdle /\ InitPromptIdle /\ InitBoundIdle /\ InitSplitIdle
    /\ fmt_content \in TextsUpTo(FormatChars, MaxContentLen)
    /\ fmt_accumulated \in TextsUpTo(FormatChars, MaxAccLen)
    /\ fmt_result = <<>>
    /\ fmt_done = FALSE

Format ==
    /\ ~fmt_done
    /\ fmt_result' = format_gemini_output(fmt_content, fmt_accumulated)
    /\ fmt_done' = TRUE
    /\ UNCHANGED <<fmt_content, fmt_accumulated, walVars, engineVars, normVars,
                   promptVars, boundVars, splitVars, runVars>>

NextFormat == Format

SpecFormat == InitFormat /\ [][NextFormat]_vars

\* A newline goes in front of the chunk (1) or not (0).
CrossBreak(content, accumulated) ==
    IF /\ accumulated # <<>>
       /\ content # <<>>
       /\ accumulated[Len(accumulated)] = "."
       /\ content[1] \in UpperAlpha
    THEN 1 ELSE 0

\* The periods of content before index i that an uppercase letter follows.
BreaksBefore(content, i) ==
    Cardinality({j \in 1..(i - 1) :
                    j < Len(content) /\ content[j] = "." /\ content[j + 1] \in UpperAlpha})

\* Where the i-th character of content must stand in the result.
PlaceOf(content, accumulated, i) ==
    CrossBreak(content, accumulated) + i + BreaksBefore(content, i)

\* C9: the result keeps every character of the chunk in order, has one
\* newline in front exactly when the accumulated message ends with a period
\* and the chunk starts with an uppercase letter, one newline after every
\* period an uppercase letter follows, and no other inserted character.
C9_FormatInsertions ==
    fmt_done =>
        LET n == Len(fmt_content)
            places == {PlaceOf(fmt_content, fmt_accumulated, i) : i \in 1..n}
        IN  /\ Len(fmt_result) = CrossBreak(fmt_content, fmt_accumulated) + n
                                 + BreaksBefore(fmt_content, n)
            /\ \A i \in 1..n :
                  fmt_result[PlaceOf(fmt_content, fmt_accumulated, i)] = fmt_content[i]
            /\ \A k \in 1..Len(fmt_result) : k \notin places => fmt_result[k] = "\n"

C9_Witness ==
    /\ fmt_done
    /\ fmt_accumulated = <<"a", ".">>
    /\ fmt_content = <<"B", ".", "B">>
    /\ fmt_result = <<"\n", "B", ".", "\n", "B">>

-----------------------------------------------------------------------------
(* normalize_logs (lines 137-209) *)

\* str::lines: the text between line feeds, a carriage return in front of a
\* line feed dropped; a final line needs no line feed, and nothing follows
\* a final line feed.
RECURSIVE lines_from(_, _)
lines_from(text, cur) ==
    IF text = <<>>
    THEN IF cur = <<>> THEN <<>> ELSE <<cur>>
    ELSE IF Head(text) = "\n"
         THEN <<IF cur # <<>> /\ Last(cur) = "\r"
                THEN SubSeq(cur, 1, Len(cur) - 1) ELSE cur>>
              \o lines_from(Tail(text), <<>>)
         ELSE lines_from(Tail(text), Append(cur, Head(text)))

lines(text) == lines_from(text, <<>>)

\* str::trim
RECURSIVE trim_start(_)
trim_start(t) ==
    IF t # <<>> /\ Head(t) \in Whitespace THEN trim_start(Tail(t)) ELSE t

RECURSIVE trim_end(_)
trim_end(t) ==
    IF t # <<>> /\ Last(t) \in Whitespace
    THEN trim_end(SubSeq(t, 1, Len(t) - 1)) ELSE t

trim(t) == trim_end(trim_start(t))

\* A NormalizedEntry; the timestamp (the time of the call) is left out.
Entry(entry_type, content) == [entry_type |-> entry_type, content |-> content]

\* serde_json::from_str::<NormalizedEntry>.  The character "e" stands for
\* the member list of a well-formed entry, so "{e}" is the one line that
\* decodes; every other text fails to decode.
from_str(t) ==
    IF t = <<"{", "e", "}">> THEN Some(Entry("from_json", <<"e">>)) ELSE None

RawOutputPrefix == <<"R", "a", "w", " ", "o", "u", "t", "p", "u", "t", ":", " ">>

\* The loop body with the fallback of lines 167-173 built like the plain
\* text entry of lines 178-183.
normalize_line_fallback_as_text(line) ==
    LET trimmed == trim(line) IN
    IF trimmed = <<>> THEN <<>> ELSE <<Entry("assistant_message", trimmed)>>

\* The body of the loop of lines 145-186 for one line: the entries it pushes.
normalize_line(line) ==
    LET trimmed == trim(line) IN
    IF trimmed = <<>> THEN <<>>
    ELSE IF Head(trimmed) = "{"
         THEN IF from_str(trimmed).some
              THEN <<from_str(trimmed).val>>
              ELSE <<Entry("system_message", RawOutputPrefix \o trimmed)>>
         ELSE <<Entry("assistant_message", trimmed)>>

RECURSIVE normalize_lines(_)
normalize_lines(ls) ==
    IF ls = <<>> THEN <<>>
    ELSE normalize_line(Head(ls)) \o normalize_lines(Tail(ls))

Conversation(entries) ==
    [ok |-> TRUE, entries |-> entries, executor_type |-> "gemini"]

\* The loop left at the first line that fails to decode.
RECURSIVE normalize_lines_until_error(_)
normalize_lines_until_error(ls) ==
    IF ls = <<>> THEN <<>>
    ELSE LET trimmed == trim(Head(ls)) IN
         IF trimmed # <<>> /\ Head(trimmed) = "{" /\ ~from_str(trimmed).some
         THEN <<>>
         ELSE normalize_line(Head(ls)) \o normalize_lines_until_error(Tail(ls))

normalize_logs_stops_at_error(text) ==
    Conversation(normalize_lines_until_error(lines(text)))

normalize_logs(text) == Conversation(normalize_lines(lines(text)))

-----------------------------------------------------------------------------
(* Specification SpecNormalize: one call of normalize_logs *)

MaxLogLen == 5

LogChars == {"{", "e", "}", "a", " ", "\n"}

InitNormalize ==
    /\ InitStores /\ InitEngineIdle /\ InitRunIdle
    /\ InitFmtIdle /\ InitPromptIdle /\ InitBoundIdle /\ InitSplitIdle
    /\ logs \in TextsUpTo(LogChars, MaxLogLen)
    /\ norm_result = [ok |-> FALSE, entries |-> <<>>, executor_type |-> ""]
    /\ norm_done = FALSE

Normalize ==
    /\ ~norm_done
    /\ norm_result' = normalize_logs(logs)
    /\ norm_done' = TRUE
    /\ UNCHANGED <<logs, walVars, engineVars, fmtVars, promptVars, boundVars,
                   splitVars, runVars>>

NextNormalize == Normalize

SpecNormalize == InitNormalize /\ [][NextNormalize]_vars

\* The lines of the transcript as index ranges: a line starts at the
\* beginning of the text or after a line feed and ends before the next one.
LineStarts == {s \in 1..Len(logs) : s = 1 \/ logs[s - 1] = "\n"}

LineEnd(s) ==
    IF \E k \in s..Len(logs) : logs[k] = "\n"
    THEN (CHOOSE k \in s..Len(logs) :
             logs[k] = "\n" /\ \A j \in s..(k - 1) : logs[j] # "\n") - 1
    ELSE Len(logs)

Inked(s) == {k \in s..LineEnd(s) : logs[k] \notin Whitespace}

\* The starts of the lines that are non-empty after trimming.
NonBlankStarts == {s \in LineStarts : Inked(s) # {}}

Min(S) == CHOOSE x \in S : \A y \in S : x <= y

TrimmedLine(s) == SubSeq(logs, Min(Inked(s)), Max(Inked(s)))

RankOf(s) == Cardinality({t \in NonBlankStarts : t <= s})

\* An entry that comes from the trimmed line t.
DerivedFrom(entry, t) ==
    \/ entry = Entry("assistant_message", t)
    \/ entry = Entry("system_message", RawOutputPrefix \o t)
    \/ from_str(t).some /\ entry = from_str(t).val

\* C10: normalize_logs returns Ok for every transcript, with as many
\* entries as there are lines that are non-empty after trimming, the i-th
\* entry coming from the i-th such line.
C10_TotalCoverage ==
    norm_done =>
        /\ norm_result.ok
        /\ Len(norm_result.entries) = Cardinality(NonBlankStarts)
        /\ \A s \in NonBlankStarts :
              DerivedFrom(norm_result.entries[RankOf(s)], TrimmedLine(s))

C10_Witness ==
    /\ norm_done
    /\ Cardinality(NonBlankStarts) = 2
    /\ Len(norm_result.entries) = 2
    /\ norm_result.entries[1].entry_type = "system_message"
    /\ norm_result.entries[2].entry_type = "assistant_message"
    /\ Cardinality(LineStarts) = 3

\* The entry the shape of the trimmed line t calls for.
ClassOf(t) ==
    IF t[1] = "{"
    THEN IF from_str(t).some
         THEN from_str(t).val
         ELSE Entry("system_message", RawOutputPrefix \o t)
    ELSE Entry("assistant_message", t)

\* C11: the entry of each line that is non-empty after trimming is decided
\* by the line's shape: a line starting with "{" that decodes gives the
\* decoded entry; one that fails to decode gives a system message holding
\* "Raw output: " and the trimmed line, and the lines after it are still
\* processed; any other line gives an assistant message holding the
\* trimmed line.
C11_Classification ==
    norm_done =>
        /\ Len(norm_result.entries) = Cardinality(NonBlankStarts)
        /\ \A s \in NonBlankStarts :
              norm_result.entries[RankOf(s)] = ClassOf(TrimmedLine(s))

\* A transcript with a line that fails to decode, then a line that decodes,
\* then nothing else: both are classified.
C11_Witness ==
    /\ norm_done
    /\ logs = <<"{", "\n", "{", "e", "}">>
    /\ norm_result.entries =
          << Entry("system_message", RawOutputPrefix \o <<"{">>),
             Entry("from_json", <<"e">>) >>

-----------------------------------------------------------------------------
(* execute_streaming (lines 108-135 and 565-594): session update, spawn,   *)
(* registration of the readers, and the run of the readers after it        *)

MaxExecReads == 2

\* The configuration and subprocess output of the modelled execution.
ExecScenario == [display |-> 2, message |-> 4, feed |-> SmallChunks]

\* The fallible steps of spawn, in the order the code takes them: lines
\* 48-50, 71-78, 87-92, 93-98 for the fresh executor; lines 558, 559, 492,
\* 519-529, 531-538 for the follow-up executor.
SpawnSteps(ex) ==
    IF ex = "fresh"
    THEN <<"find_by_id", "group_spawn", "write_all", "shutdown">>
    ELSE <<"find_by_id", "collect_resume_context", "group_spawn",
           "write_all", "shutdown">>

IndexOf(seq, x) == CHOOSE i \in 1..Len(seq) : seq[i] = x

StepAfter(ex, s) ==
    IF IndexOf(SpawnSteps(ex), s) = Len(SpawnSteps(ex))
    THEN "setup_streaming"
    ELSE SpawnSteps(ex)[IndexOf(SpawnSteps(ex), s) + 1]

\* The errors a step can end in.
Failures(s) ==
    CASE s = "find_by_id" -> {"sqlx_error", "task_not_found"}
      [] s = "collect_resume_context" -> {"sqlx_error"}
      [] OTHER -> {"spawn_failed"}

TraceEntry(s, outcome) == [step |-> s, outcome |-> outcome]

InitExec ==
    /\ InitStores /\ InitEngineIdle /\ InitPureIdle
    /\ executor \in {"fresh", "followup"}
    /\ stage = "update_session_id"
    /\ session_update = "none"
    /\ child = "none"
    /\ result = Pending
    /\ readers = <<>>
    /\ trace = <<>>

\* update_session_id with a failure handed back to execute_streaming, which
\* returns it.
update_session_id_aborts ==
    /\ stage = "update_session_id"
    /\ \E ok \in BOOLEAN :
          /\ session_update' = IF ok THEN "ok" ELSE "failed"
          /\ trace' = Append(trace, TraceEntry("update_session_id",
                                               IF ok THEN "ok" ELSE "logged"))
          /\ stage' = IF ok THEN "find_by_id" ELSE "returned"
          /\ result' = IF ok THEN result
                       ELSE Err("session_update_failed", "update_session_id")
    /\ UNCHANGED <<walVars, engineVars, pureVars, executor, child, readers>>

\* Lines 122 and 580 with lines 235-259: the update is awaited first; an Err
\* is logged (lines 247-251) and nothing is returned.
update_session_id ==
    /\ stage = "update_session_id"
    /\ \E ok \in BOOLEAN :
          /\ session_update' = IF ok THEN "ok" ELSE "failed"
          /\ trace' = Append(trace, TraceEntry("update_session_id",
                                               IF ok THEN "ok" ELSE "logged"))
    /\ stage' = "find_by_id"
    /\ UNCHANGED <<walVars, engineVars, pureVars, executor, child, result, readers>>

\* A step of spawn whose error is dropped: the call goes on to the next step.
spawn_ignores_error(s) ==
    /\ stage = s
    /\ s \in Range(SpawnSteps(executor))
    /\ \E outcome \in {"ok"} \cup Failures(s) :
          /\ trace' = Append(trace, TraceEntry(s, outcome))
          /\ stage' = StepAfter(executor, s)
          /\ child' = IF s = "group_spawn" THEN "running" ELSE child
    /\ UNCHANGED <<walVars, engineVars, pureVars, executor, session_update,
                   result, readers>>

\* One fallible step of spawn (lines 41-106, 552-563) as execute_streaming
\* sees it (lines 124, 583): every error leaves both functions through `?`.
\* A child that was created is dropped with the error, and kill_on_drop
\* (line 223) ends it.
spawn(s) ==
    /\ stage = s
    /\ s \in Range(SpawnSteps(executor))
    /\ \E outcome \in {"ok"} \cup Failures(s) :
          /\ trace' = Append(trace, TraceEntry(s, outcome))
          /\ IF outcome = "ok"
             THEN /\ stage' = StepAfter(executor, s)
                  /\ result' = result
                  /\ child' = IF s = "group_spawn" THEN "running" ELSE child
             ELSE /\ stage' = "returned"
                  /\ result' = Err(outcome, s)
                  /\ child' = IF child = "running" THEN "dropped" ELSE child
    /\ UNCHANGED <<walVars, engineVars, pureVars, executor, session_update, readers>>

\* Lines 132-134 and 591-593 with lines 262-298: both pipes are taken, the
\* two reader tasks are handed to tokio::spawn, and Ok(child) is returned.
\* The stdout reader starts with the state of lines 658-667.
setup_streaming ==
    /\ stage = "setup_streaming"
    /\ readers' = readers \o <<"stream_gemini_chunked", "stream_output_to_db">>
    /\ pc' = "loop"
    /\ display_chunk_size' = ExecScenario.display
    /\ message_boundary_size' = ExecScenario.message
    /\ feed' = ExecScenario.feed
    /\ trace' = Append(trace, TraceEntry("setup_streaming", "ok"))
    /\ stage' = "returned"
    /\ result' = Ok
    /\ UNCHANGED <<walVars, current_message, db_buffer, last_chunk_emit, entry_count, nreads,
                   fmt_all, raw_all, completions, exit_by, step, stderr_chunks,
                   pureVars, executor, session_update, child>>

\* The process group of the running child is terminated by the caller that
\* holds the returned child.
Terminate ==
    /\ stage = "returned"
    /\ child = "running"
    /\ child' = "terminated"
    /\ UNCHANGED <<walVars, engineVars, pureVars, executor, stage,
                   session_update, result, readers, trace>>

\* The stdout pipe: it hands over what the subprocess wrote, also after the
\* writer is gone, and a terminated writer shows as a zero-byte read, never
\* as an error.
StdoutReadChunk == nreads < MaxExecReads /\ ReadChunk

StdoutReadErr == child = "running" /\ ReadErr

StdoutReader == StdoutReadChunk \/ ReadEof \/ StdoutReadErr

StderrReader == "stream_output_to_db" \in Range(readers) /\ StderrRead

NextExec ==
    \/ update_session_id
    \/ \E s \in Range(SpawnSteps(executor)) : spawn(s)
    \/ setup_streaming
    \/ StdoutReadChunk
    \/ ReadEof
    \/ StdoutReadErr
    \/ StderrReader
    \/ Terminate

SpecExec == InitExec /\ [][NextExec]_vars

\* A running execution: execute_streaming of the fresh executor has returned
\* Ok, the child runs and the stdout reader is at the top of its loop.
InitCancel ==
    /\ InitStores /\ InitPureIdle
    /\ pc = "loop"
    /\ current_message = <<>>
    /\ db_buffer = <<>>
    /\ entry_count = 0
    /\ last_chunk_emit = 0
    /\ display_chunk_size = ExecScenario.display
    /\ message_boundary_size = ExecScenario.message
    /\ feed = ExecScenario.feed
    /\ nreads = 0
    /\ fmt_all = <<>>
    /\ raw_all = <<>>
    /\ completions = <<>>
    /\ exit_by = "none"
    /\ step = NoStep
    /\ stderr_chunks = 0
    /\ executor = "fresh"
    /\ stage = "returned"
    /\ session_update = "ok"
    /\ child = "running"
    /\ result = Ok
    /\ readers = <<"stream_gemini_chunked", "stream_output_to_db">>
    /\ trace = <<TraceEntry("update_session_id", "ok")>>
               \o [k \in 1..Len(SpawnSteps("fresh")) |->
                      TraceEntry(SpawnSteps("fresh")[k], "ok")]
               \o <<TraceEntry("setup_streaming", "ok")>>

\* The stdout reader of a running execution and the caller who cancels it.
NextCancel ==
    \/ StdoutReadChunk
    \/ ReadEof
    \/ StdoutReadErr
    \/ Terminate

\* The stdout reader is a tokio task: while it can take a step it takes one.
SpecCancel == InitCancel /\ [][NextCancel]_vars /\ WF_vars(StdoutReader)

-----------------------------------------------------------------------------
(* Claims about execute_streaming and cancellation *)

\* The end-of-stream path has run for the modelled execution.
EofPathDone ==
    /\ pc = "exited"
    /\ exit_by = "eof"
    /\ finalized[EngineId]
    /\ EngineId \notin DOMAIN wal

\* The step in which the stdout reader leaves its loop after termination is
\* the end-of-stream path: final patch for a message with ink, the whole
\* durable buffer written, the WAL entry evicted.
C12_ExitStep ==
    (child = "terminated" /\ pc = "loop" /\ pc' = "exited") =>
        /\ exit_by' = "eof"
        /\ step'.kind = "eof"
        /\ Len(FinalizeEventsOf(step'.events)) = 1
        /\ (~TrimIsEmpty(current_message) =>
              /\ Len(pushed'[EngineId]) = Len(pushed[EngineId]) + 1
              /\ Last(pushed'[EngineId])[1].content = current_message)
        /\ durable'[EngineId] = durable[EngineId] \o db_buffer
        /\ EngineId \notin DOMAIN wal'

SpawnTrace == SelectSeq(trace, LAMBDA t : t.step \in Range(SpawnSteps(executor)))

Failed == {i \in 1..Len(trace) : trace[i].outcome \notin {"ok", "logged"}}

SetupDone == \E i \in 1..Len(trace) : trace[i].step = "setup_streaming"

BothReaders == <<"stream_gemini_chunked", "stream_output_to_db">>

\* Something of the subprocess or of its readers exists.
Spawned ==
    \/ child # "none"
    \/ readers # <<>>
    \/ pc = "loop"
    \/ nreads > 0
    \/ stderr_chunks > 0
    \/ pushed[EngineId] # <<>>

\* What the call has come to, told from the outcomes of the spawn steps
\* alone.
ResultOfSpawn ==
    IF Failed # {}
    THEN Err(trace[Max(Failed)].outcome, trace[Max(Failed)].step)
    ELSE IF SetupDone THEN Ok ELSE Pending

\* C13: in both executors the session update is the first step taken, so it
\* comes before the subprocess exists and before a reader has read; after
\* it, the step taken next, the readers registered and the value returned
\* are the same whether the update failed or not.
C13_SessionUpdateFirst ==
    /\ \A i \in 1..Len(trace) : (trace[i].step = "update_session_id") <=> (i = 1)
    /\ Spawned => session_update # "none"
    /\ session_update # "none" =>
          /\ result = ResultOfSpawn
          /\ readers = IF SetupDone THEN BothReaders ELSE <<>>
          /\ (Len(trace) = 1 =>
                 stage = "find_by_id" /\ ENABLED spawn("find_by_id"))

\* The update failed, and still the subprocess was spawned, both readers
\* were registered, Ok was returned and output was read.
C13_Witness ==
    /\ session_update = "failed"
    /\ executor = "followup"
    /\ result = Ok
    /\ readers = BothReaders
    /\ nreads > 0
    /\ stderr_chunks > 0

\* C14: a failing spawn step is the last step of the call: its error is what
\* the caller gets, no step is taken twice, no reader is started or reads,
\* and nothing is pushed for the execution; when no step fails, one stdout
\* reader and one stderr reader are started, in that order.
C14_SpawnFailure ==
    /\ \A i \in Failed :
          /\ i = Len(trace)
          /\ stage = "returned"
          /\ result = Err(trace[i].outcome, trace[i].step)
          /\ readers = <<>>
          /\ pc # "loop" /\ nreads = 0 /\ stderr_chunks = 0
          /\ pushed[EngineId] = <<>>
          /\ EngineId \notin DOMAIN wal
          /\ child \in {"none", "dropped"}
          /\ ~ENABLED NextExec
    /\ \A i, j \in 1..Len(trace) : trace[i].step = trace[j].step => i = j
    /\ (stage = "returned" /\ Failed = {}) =>
          /\ result = Ok
          /\ readers = BothReaders
          /\ SpawnTrace = [k \in 1..Len(SpawnSteps(executor)) |->
                              TraceEntry(SpawnSteps(executor)[k], "ok")]
    /\ readers \in {<<>>, BothReaders}

\* Closing stdin failed in the follow-up executor: the child that had been
\* created is dropped, the error is returned, nothing was started.
C14_Witness ==
    /\ executor = "followup"
    /\ result = Err("spawn_failed", "shutdown")
    /\ child = "dropped"
    /\ Len(trace) = 6
    /\ readers = <<>>

-----------------------------------------------------------------------------
(* build_comprehensive_prompt (lines 427-477) *)

\* The literal pieces of the format string of lines 433-458, between its
\* seven arguments.  The grave accent (U+0060) of the code fence is written
\* "^": a string of this language cannot hold it.
Template == <<
    <<"R", "E", "S", "U", "M", "E", " ", "C", "O", "N", "T", "E", "X", "T",
        " ", "F", "O", "R", " ", "C", "O", "N", "T", "I", "N", "U", "I", "N",
        "G", " ", "T", "A", "S", "K", "\n", "\n", "=", "=", "=", " ", "T",
        "A", "S", "K", " ", "I", "N", "F", "O", "R", "M", "A", "T", "I", "O",
        "N", " ", "=", "=", "=", "\n", "P", "r", "o", "j", "e", "c", "t", " ",
        "I", "D", ":", " " >>,
    <<"\n", "T", "a", "s", "k", " ", "I", "D", ":", " " >>,
    <<"\n", "T", "a", "s", "k", " ", "T", "i", "t", "l", "e", ":", " " >>,
    <<"\n", "T", "a", "s", "k", " ", "D", "e", "s", "c", "r", "i", "p", "t",
        "i", "o", "n", ":", " " >>,
    <<"\n", "\n", "=", "=", "=", " ", "E", "X", "E", "C", "U", "T", "I",
        "O", "N", " ", "H", "I", "S", "T", "O", "R", "Y", " ", "=", "=", "=",
        "\n", "T", "h", "e", " ", "f", "o", "l", "l", "o", "w", "i", "n", "g",
        " ", "i", "s", " ", "t", "h", "e", " ", "e", "x", "e", "c", "u", "t",
        "i", "o", "n", " ", "h", "i", "s", "t", "o", "r", "y", " ", "f", "r",
        "o", "m", " ", "t", "h", "i", "s", " ", "t", "a", "s", "k", " ", "a",
        "t", "t", "e", "m", "p", "t", ":", "\n", "\n" >>,
    <<"\n", "\n", "=", "=", "=", " ", "C", "U", "R", "R", "E", "N", "T",
        " ", "C", "H", "A", "N", "G", "E", "S", " ", "=", "=", "=", "\n", "T",
        "h", "e", " ", "f", "o", "l", "l", "o", "w", "i", "n", "g", " ", "g",
        "i", "t", " ", "d", "i", "f", "f", " ", "s", "h", "o", "w", "s", " ",
        "c", "h", "a", "n", "g", "e", "s", " ", "m", "a", "d", "e", " ", "f",
        "r", "o", "m", " ", "t", "h", "e", " ", "b", "a", "s", "e", " ", "b",
        "r", "a", "n", "c", "h", " ", "t", "o", " ", "t", "h", "e", " ", "c",
        "u", "r", "r", "e", "n", "t", " ", "s", "t", "a", "t", "e", ":", "\n",
        "\n", "^", "^", "^", "d", "i", "f", "f", "\n" >>,
    <<"\n", "^", "^", "^", "\n", "\n", "=", "=", "=", " ", "C", "U", "R",
        "R", "E", "N", "T", " ", "R", "E", "Q", "U", "E", "S", "T", " ", "=",
        "=", "=", "\n" >>,
    <<"\n", "\n", "=", "=", "=", " ", "I", "N", "S", "T", "R", "U", "C",
        "T", "I", "O", "N", "S", " ", "=", "=", "=", "\n", "Y", "o", "u", " ",
        "a", "r", "e", " ", "c", "o", "n", "t", "i", "n", "u", "i", "n", "g",
        " ", "w", "o", "r", "k", " ", "o", "n", " ", "t", "h", "e", " ", "a",
        "b", "o", "v", "e", " ", "t", "a", "s", "k", ".", " ", "T", "h", "e",
        " ", "e", "x", "e", "c", "u", "t", "i", "o", "n", " ", "h", "i", "s",
        "t", "o", "r", "y", " ", "s", "h", "o", "w", "s", " ", "w", "h", "a",
        "t", " ", "h", "a", "s", " ", "b", "e", "e", "n", " ", "d", "o", "n",
        "e", " ", "p", "r", "e", "v", "i", "o", "u", "s", "l", "y", ",", " ",
        "a", "n", "d", " ", "t", "h", "e", " ", "g", "i", "t", " ", "d", "i",
        "f", "f", " ", "s", "h", "o", "w", "s", " ", "t", "h", "e", " ", "c",
        "u", "r", "r", "e", "n", "t", " ", "s", "t", "a", "t", "e", " ", "o",
        "f", " ", "a", "l", "l", " ", "c", "h", "a", "n", "g", "e", "s", ".",
        " ", "P", "l", "e", "a", "s", "e", " ", "c", "o", "n", "t", "i", "n",
        "u", "e", " ", "f", "r", "o", "m", " ", "w", "h", "e", "r", "e", " ",
        "t", "h", "e", " ", "p", "r", "e", "v", "i", "o", "u", "s", " ", "e",
        "x", "e", "c", "u", "t", "i", "o", "n", " ", "l", "e", "f", "t", " ",
        "o", "f", "f", ",", " ", "t", "a", "k", "i", "n", "g", " ", "i", "n",
        "t", "o", " ", "a", "c", "c", "o", "u", "n", "t", " ", "a", "l", "l",
        " ", "t", "h", "e", " ", "c", "o", "n", "t", "e", "x", "t", " ", "p",
        "r", "o", "v", "i", "d", "e", "d", " ", "a", "b", "o", "v", "e", ".",
        "\n" >> >>

NoDescription ==
    <<"N", "o", " ", "d", "e", "s", "c", "r", "i", "p", "t", "i", "o", "n",
        " ", "p", "r", "o", "v", "i", "d", "e", "d" >>

NoHistory ==
    <<"(", "N", "o", " ", "p", "r", "e", "v", "i", "o", "u", "s", " ", "e",
        "x", "e", "c", "u", "t", "i", "o", "n", " ", "h", "i", "s", "t", "o",
        "r", "y", ")" >>

NoChanges ==
    <<"(", "N", "o", " ", "c", "h", "a", "n", "g", "e", "s", " ", "d", "e",
        "t", "e", "c", "t", "e", "d", ")" >>

\* task.project_id, task.id, task.title and self.prompt of the modelled
\* call; the identifiers are shortened to one character.
ProjectId == <<"1">>

TaskId == <<"2">>

TaskTitle == <<"T">>

Request == <<"r">>

\* The prompt with the placeholders chosen by is_empty() on the untrimmed
\* fields.
build_comprehensive_prompt_no_trim(description, history, diffs) ==
    Template[1] \o ProjectId \o Template[2] \o TaskId \o Template[3] \o TaskTitle
    \o Template[4] \o (IF description.some THEN description.val ELSE NoDescription)
    \o Template[5] \o (IF history = <<>> THEN NoHistory ELSE history)
    \o Template[6] \o (IF diffs = <<>> THEN NoChanges ELSE diffs)
    \o Template[7] \o Request \o Template[8]

\* Lines 432-476: as_deref().unwrap_or(..) on the Option (lines 462-464),
\* trim().is_empty() on the two context fields (lines 465-474).
build_comprehensive_prompt(description, history, diffs) ==
    Template[1] \o ProjectId \o Template[2] \o TaskId \o Template[3] \o TaskTitle
    \o Template[4] \o (IF description.some THEN description.val ELSE NoDescription)
    \o Template[5] \o (IF trim(history) = <<>> THEN NoHistory ELSE history)
    \o Template[6] \o (IF trim(diffs) = <<>> THEN NoChanges ELSE diffs)
    \o Template[7] \o Request \o Template[8]

-----------------------------------------------------------------------------
(* Specification SpecPrompt: one call of build_comprehensive_prompt *)

MaxFieldLen == 2

InitPrompt ==
    /\ InitStores /\ InitEngineIdle /\ InitRunIdle
    /\ InitFmtIdle /\ InitNormIdle /\ InitBoundIdle /\ InitSplitIdle
    /\ task_description \in
          {None} \cup {Some(t) : t \in TextsUpTo({"d", " "}, MaxFieldLen)}
    /\ execution_history \in TextsUpTo({"h", " ", "\n"}, MaxFieldLen)
    /\ cumulative_diffs \in TextsUpTo({"c", " "}, MaxFieldLen)
    /\ prompt_result = <<>>
    /\ prompt_done = FALSE

BuildPrompt ==
    /\ ~prompt_done
    /\ prompt_result' = build_comprehensive_prompt(task_description,
                                                   execution_history,
                                                   cumulative_diffs)
    /\ prompt_done' = TRUE
    /\ UNCHANGED <<task_description, execution_history, cumulative_diffs,
                   walVars, engineVars, fmtVars, normVars, boundVars, splitVars,
                   runVars>>

NextPrompt == BuildPrompt

SpecPrompt == InitPrompt /\ [][NextPrompt]_vars

\* Reading the prompt back: the text between two headings.
StartsAt(text, i, sub) ==
    /\ i + Len(sub) - 1 <= Len(text)
    /\ SubSeq(text, i, i + Len(sub) - 1) = sub

Contains(text, sub) == \E i \in 1..Len(text) : StartsAt(text, i, sub)

FirstAt(text, from, sub) == Min({i \in from..Len(text) : StartsAt(text, i, sub)})

Section(text, open, close) ==
    LET a == FirstAt(text, 1, open) + Len(open)
    IN  SubSeq(text, a, FirstAt(text, a, close) - 1)

DescriptionSection ==
    Section(prompt_result,
    <<"T", "a", "s", "k", " ", "D", "e", "s", "c", "r", "i", "p", "t", "i",
        "o", "n", ":", " " >>,
    <<"\n", "\n", "=", "=", "=", " ", "E", "X", "E", "C", "U", "T", "I",
        "O", "N", " ", "H", "I", "S", "T", "O", "R", "Y", " ", "=", "=", "=" >>)

HistorySection ==
    Section(prompt_result,
    <<"t", "a", "s", "k", " ", "a", "t", "t", "e", "m", "p", "t", ":", "\n",
        "\n" >>,
    <<"\n", "\n", "=", "=", "=", " ", "C", "U", "R", "R", "E", "N", "T",
        " ", "C", "H", "A", "N", "G", "E", "S", " ", "=", "=", "=" >>)

DiffSection ==
    Section(prompt_result,
    <<"^", "^", "^", "d", "i", "f", "f", "\n" >>,
    <<"\n", "^", "^", "^", "\n" >>)

HasInk(t) == \E i \in 1..Len(t) : t[i] \notin Whitespace

\* The statement with "empty" read as "of length 0" for all three fields:
\* the placeholder stands in the prompt exactly when the field is empty, and
\* a non-empty field stands there itself.
C15_PlaceholderIffEmpty ==
    prompt_done =>
        /\ DescriptionSection =
              IF ~task_description.some \/ task_description.val = <<>>
              THEN NoDescription ELSE task_description.val
        /\ HistorySection =
              IF execution_history = <<>> THEN NoHistory ELSE execution_history
        /\ DiffSection =
              IF cumulative_diffs = <<>> THEN NoChanges ELSE cumulative_diffs

\* C15: the prompt holds "No description provided" exactly when the task
\* has no description (a description that is present stands there as it is,
\* also when it is the empty text); it holds "(No previous execution
\* history)" and "(No changes detected)" exactly when the history and the
\* diff hold nothing but whitespace, and otherwise the field itself,
\* untrimmed.
C15_Placeholders ==
    prompt_done =>
        /\ DescriptionSection =
              IF task_description.some THEN task_description.val ELSE NoDescription
        /\ Contains(prompt_result, NoDescription) <=> ~task_description.some
        /\ HistorySection =
              IF HasInk(execution_history) THEN execution_history ELSE NoHistory
        /\ Contains(prompt_result, NoHistory) <=> ~HasInk(execution_history)
        /\ DiffSection =
              IF HasInk(cumulative_diffs) THEN cumulative_diffs ELSE NoChanges
        /\ Contains(prompt_result, NoChanges) <=> ~HasInk(cumulative_diffs)

\* A present but empty description, a history of one blank, a diff with
\* text: no description placeholder, the history placeholder, the diff
\* itself.
C15_Witness ==
    /\ prompt_done
    /\ task_description = Some(<<>>)
    /\ execution_history = <<" ">>
    /\ cumulative_diffs = <<"c", " ">>
    /\ DescriptionSection = <<>>
    /\ HistorySection = NoHistory
    /\ DiffSection = <<"c", " ">>

-----------------------------------------------------------------------------
(* Specification SpecBoundary: calls of find_chunk_boundary on one text *)

MaxBufLen == 4

MaxLimit == 3

MaxCalls == 2

BoundaryChars == {"a", ".", "?", "\n"}

\* The finder is a pure function (section 4.3): one selection among the
\* allowed results, the same at every call.
FinderRules == {"least", "greatest"}

Pick(rule, S) ==
    IF rule = "least"
    THEN CHOOSE x \in S : \A y \in S : x <= y
    ELSE Max(S)

InitBoundary ==
    /\ InitStores /\ InitEngineIdle /\ InitRunIdle
    /\ InitFmtIdle /\ InitNormIdle /\ InitPromptIdle /\ InitSplitIdle
    /\ fb_buffer \in TextsUpTo(BoundaryChars, MaxBufLen)
    /\ fb_max_size \in 0..MaxLimit
    /\ fb_rule \in FinderRules
    /\ fb_result = <<>>
    /\ fb_calls = 0

FindBoundary ==
    /\ fb_calls < MaxCalls
    /\ fb_result' = Append(fb_result,
                           Pick(fb_rule, find_chunk_boundary(fb_buffer, fb_max_size)))
    /\ fb_calls' = fb_calls + 1
    /\ UNCHANGED <<fb_buffer, fb_max_size, fb_rule, walVars, engineVars,
                   fmtVars, normVars, promptVars, splitVars, runVars>>

NextBoundary == FindBoundary

SpecBoundary == InitBoundary /\ [][NextBoundary]_vars

\* 0-based positions at or before the limit that hold a line feed, and
\* those that hold a sentence end.
NewlinesUpTo(L) == {p \in 0..L : p < Len(fb_buffer) /\ fb_buffer[p + 1] = "\n"}

SentenceEndsUpTo(L) ==
    {p \in 0..L : p < Len(fb_buffer) /\ fb_buffer[p + 1] \in {".", "!", "?"}}

IsLast(r, S) == r \in S /\ \A q \in S : q <= r

-----------------------------------------------------------------------------
(* Claims about one read iteration of the stdout engine *)

\* The step is a non-empty read.
IsRead == nreads' = nreads + 1

\* The message buffer of the iteration once the formatted chunk is appended
\* (line 703).
ReadMessage == current_message \o SubSeq(fmt_all', Len(fmt_all) + 1, Len(fmt_all'))

\* The patches pushed in the step, in push order.
NewPatches ==
    [i \in 1..(Len(pushed'[EngineId]) - Len(pushed[EngineId])) |->
        pushed'[EngineId][Len(pushed[EngineId]) + i][1]]

\* The entry counter once the first message exists (lines 365-367).
CounterAtPatch == IF entry_count = 0 THEN 1 ELSE entry_count

\* The finder was called in the step and gave an interior split point.
Crossing ==
    /\ IsRead
    /\ step'.finder.some
    /\ 0 < step'.finder.val
    /\ step'.finder.val < Len(ReadMessage)

\* C17: in a read whose message buffer has reached message_boundary_size
\* and for which the finder gives b with 0 < b < length, the last patch
\* pushed is a replace at the current entry index holding the first b
\* bytes, the only patch of the step besides a chunk emission of the whole
\* buffer, and no add; the flushes come after the pushes; the message
\* buffer becomes the remaining bytes, so patch and buffer together are
\* the old buffer, and the entry counter is one more than at the patch.
C17_CrossingStep ==
    Crossing =>
        LET b == step'.finder.val
            new == NewPatches
        IN  /\ Len(ReadMessage) >= message_boundary_size
            /\ Len(new) \in {1, 2}
            /\ Last(new) = Patch("replace", CounterAtPatch - 1,
                                  SubSeq(ReadMessage, 1, b))
            /\ \A i \in 1..(Len(new) - 1) :
                  new[i] = Patch("replace", CounterAtPatch - 1, ReadMessage)
            /\ step'.events = PushEvents(new) \o <<FlushEvent, FlushEvent>>
            /\ current_message' = SubSeq(ReadMessage, b + 1, Len(ReadMessage))
            /\ Last(new).content \o current_message' = ReadMessage
            /\ entry_count' = CounterAtPatch + 1
            /\ (entry_count >= 1 => entry_count' = entry_count + 1)
            /\ durable'[EngineId] \o db_buffer' =
                  durable[EngineId] \o db_buffer
                  \o SubSeq(fmt_all', Len(fmt_all) + 1, Len(fmt_all'))

C17_BoundaryCrossing == [][C17_CrossingStep]_vars

\* The second read crossed a boundary of a message that had been emitted
\* before: chunk emission and boundary patch, both at index 0, then the
\* remainder alone in the buffer and the counter at 2.
C17_Witness ==
    /\ step.kind = "read"
    /\ nreads = 2
    /\ step.finder.some
    /\ 0 < step.finder.val
    /\ Len(completions) = 1
    /\ completions[1].at = Len(pushed[EngineId])
    /\ Len(PushEventsOf(step.events)) = 2
    /\ Len(Patches) = 3
    /\ entry_count = 2
    /\ current_message # <<>>
    /\ Last(Patches).content \o current_message = fmt_all

\* The finder was called in the step and gave 0 or the buffer length.
NoUsableBoundary ==
    /\ IsRead
    /\ step'.finder.some
    /\ step'.finder.val \in {0, Len(ReadMessage)}

\* C18: in a read whose message buffer has reached message_boundary_size
\* and for which the finder gives 0 or the buffer length, nothing but the
\* chunk emission is pushed, there is one flush, the message buffer is the
\* old buffer with the chunk appended and the entry counter is what the
\* chunk emission left; a read without a split never shortens the buffer,
\* so it stays at or above the limit until a split or the end of stream.
C18_NoSplitStep ==
    /\ NoUsableBoundary =>
          /\ Len(ReadMessage) >= message_boundary_size
          /\ Len(NewPatches) <= 1
          /\ \A i \in 1..Len(NewPatches) :
                NewPatches[i] = Patch("replace", CounterAtPatch - 1, ReadMessage)
          /\ step'.events = PushEvents(NewPatches) \o <<FlushEvent>>
          /\ current_message' = ReadMessage
          /\ entry_count' = IF NewPatches = <<>> THEN entry_count ELSE CounterAtPatch
          /\ completions' = completions
    /\ (IsRead /\ completions' = completions) =>
          /\ current_message' = ReadMessage
          /\ Len(current_message') >= Len(current_message)

C18_NoUsableBoundary == [][C18_NoSplitStep]_vars

\* The finder gave 0 for a buffer that starts with a line feed: after the
\* read the buffer is longer than message_boundary_size and still whole.
C18_Witness ==
    /\ step.kind = "read"
    /\ step.finder = Some(0)
    /\ Len(current_message) > message_boundary_size
    /\ current_message[1] = "\n"
    /\ Len(completions) = 1
    /\ completions[1].at < Len(pushed[EngineId])
    /\ entry_count = 2

\* The condition of lines 707-709 for the step.
ShouldEmitChunk ==
    \/ Len(ReadMessage) >= display_chunk_size
    \/ (step'.elapsed /\ ReadMessage # <<>>)

\* The patches of the step that carry the whole message buffer.
WholePatches == SelectSeq(NewPatches, LAMBDA p : p.content = ReadMessage)

\* C19: a non-empty read pushes a replace patch with the whole message
\* buffer at the current entry index exactly when the buffer has reached
\* display_chunk_size or the latency has elapsed with the buffer non-empty,
\* and then first of all; last_chunk_emit is set in exactly these reads;
\* the emission takes nothing from the message buffer or from the text on
\* its way to the durable store.
C19_EmissionStep ==
    IsRead =>
        /\ Len(WholePatches) = IF ShouldEmitChunk THEN 1 ELSE 0
        /\ ShouldEmitChunk =>
              NewPatches[1] = Patch("replace", CounterAtPatch - 1, ReadMessage)
        /\ last_chunk_emit' = IF ShouldEmitChunk THEN nreads' ELSE last_chunk_emit
        /\ ~Crossing => current_message' = ReadMessage
        /\ durable'[EngineId] \o db_buffer' =
              durable[EngineId] \o db_buffer
              \o SubSeq(fmt_all', Len(fmt_all) + 1, Len(fmt_all'))

C19_ChunkEmission == [][C19_EmissionStep]_vars

\* The second read left the buffer below display_chunk_size and was
\* emitted for latency alone; the first read was not emitted.
C19_Witness ==
    /\ step.kind = "read"
    /\ step.elapsed
    /\ nreads = 2
    /\ Len(current_message) < display_chunk_size
    /\ Len(Patches) = 1
    /\ Patches[1] = Patch("replace", 0, current_message)
    /\ last_chunk_emit = 2

-----------------------------------------------------------------------------
(* Claims about the operations of the patches *)

\* The patches that are the first at their entry index.
Introductions ==
    {i \in 1..Len(Patches) : \A j \in 1..(i - 1) : Patches[j].index < Patches[i].index}

-----------------------------------------------------------------------------
(* Claims about the two views of a whole run *)

\* The entry indices that have been patched.
PatchedIndices == {Patches[i].index : i \in 1..Len(Patches)}

\* The content of the last patch pushed for entry index k.
LastContent(k) ==
    Patches[Max({i \in 1..Len(Patches) : Patches[i].index = k})].content

\* The entries as a client of the patch log sees them, concatenated in
\* index order.
RECURSIVE ViewOf(_)
ViewOf(indices) ==
    IF indices = {} THEN <<>>
    ELSE LET k == Min(indices)
         IN  LastContent(k) \o ViewOf(indices \ {k})

WalView == ViewOf(PatchedIndices)

\* The statement for every run that ends with the end of the stream.
C21_ViewsAgree ==
    exit_by = "eof" =>
        /\ WalView = fmt_all
        /\ durable[EngineId] = fmt_all

\* C21: after a run that ends with the end of the stream, the text handed
\* to the durable store is the formatted output, and the entries of the
\* patch log, concatenated in index order, are the formatted output up to
\* a trailing run of whitespace that was never published; they are the
\* whole formatted output when the message buffer at the end of the stream
\* holds a character that is not whitespace.
C21_ViewsAgreeUpToBlankTail ==
    exit_by = "eof" =>
        /\ durable[EngineId] = fmt_all
        /\ IsPrefix(WalView, fmt_all)
        /\ TrimIsEmpty(SubSeq(fmt_all, Len(WalView) + 1, Len(fmt_all)))
        /\ (~TrimIsEmpty(current_message) => WalView = fmt_all)

\* A run over a message boundary that ends with text in the buffer: two
\* entries in the patch log, both views equal to the formatted output.
C21_Witness ==
    /\ exit_by = "eof"
    /\ nreads = MaxReads
    /\ Len(completions) >= 1
    /\ Cardinality(PatchedIndices) >= 2
    /\ ~TrimIsEmpty(current_message)
    /\ WalView = fmt_all
    /\ durable[EngineId] = fmt_all

-----------------------------------------------------------------------------
(* Claims about replaying the patch log *)

\* One patch applied to the entry sequence of a client: a replace
\* overwrites the entry at its position, which has to exist; an add
\* inserts at its position, which may be the end.  Positions count from 0.
ApplyPatch(entries, p) ==
    IF p.op = "replace"
    THEN IF p.index < Len(entries)
         THEN [ok |-> TRUE,
               entries |-> [entries EXCEPT ![p.index + 1] = p.content]]
         ELSE [ok |-> FALSE, entries |-> entries]
    ELSE IF p.index <= Len(entries)
         THEN [ok |-> TRUE,
               entries |-> SubSeq(entries, 1, p.index) \o <<p.content>>
                           \o SubSeq(entries, p.index + 1, Len(entries))]
         ELSE [ok |-> FALSE, entries |-> entries]

\* The first n patches applied in order, stopping at the first failure.
RECURSIVE Replay(_, _)
Replay(ps, n) ==
    IF n = 0 THEN [ok |-> TRUE, entries |-> <<>>]
    ELSE LET before == Replay(ps, n - 1)
         IN  IF before.ok THEN ApplyPatch(before.entries, ps[n]) ELSE before

\* C22: the patches pushed so far, applied in push order to an empty entry
\* sequence, all apply: each replace finds its entry, each add a position
\* not beyond the end.
C22_Replayable == Replay(Patches, Len(Patches)).ok

-----------------------------------------------------------------------------
(* Claims about the indices and contents of the patch log *)

\* Every patch of the step targets the counter as it stands when the patch
\* is built, less one.
TargetsCounter ==
    \A i \in 1..Len(NewPatches) : NewPatches[i].index = CounterAtPatch - 1

\* The first patch targets index 0, and from one patch to the next the
\* index stays or goes up by one.
IndicesGapless ==
    /\ Patches # <<>> => Patches[1].index = 0
    /\ \A i \in 1..(Len(Patches) - 1) :
          Patches[i + 1].index - Patches[i].index \in {0, 1}
    /\ Patches # <<>> => PatchedIndices = 0..Max(PatchedIndices)

\* C23: over the whole run of the stdout engine every patch targets index
\* (entry counter - 1) as the counter stands when the patch is built, the
\* first patch targets index 0, and the index of consecutive patches never
\* decreases and never increases by more than one, so the indices patched
\* are a gapless range from 0.
C23_GaplessIndices == [][TargetsCounter /\ IndicesGapless']_vars

C23_Witness ==
    /\ Len(Patches) >= 3
    /\ \E i \in 1..(Len(Patches) - 1) : Patches[i + 1].index = Patches[i].index
    /\ \E i \in 1..(Len(Patches) - 1) : Patches[i + 1].index = Patches[i].index + 1
    /\ Max(PatchedIndices) >= 1
    /\ entry_count = Max(PatchedIndices) + 1

\* Positions i of the patch log whose successor targets the same index.
SameIndexPairs ==
    {i \in 1..(Len(Patches) - 1) : Patches[i + 1].index = Patches[i].index}

\* The positions of the patches that completed an entry at a boundary.
CompletingPositions == {completions[j].at : j \in 1..Len(completions)}

\* C24: within one entry index the published content only grows: of two
\* consecutive patches for the same entry index the content of the earlier
\* is a prefix of the content of the later.
C24_ContentOnlyGrows ==
    \A i \in SameIndexPairs : IsPrefix(Patches[i].content, Patches[i + 1].content)

\* C24 as it holds: the later of two consecutive patches for one index
\* extends the earlier unless it is the patch completing the entry at a
\* message boundary, which may instead be a prefix of the earlier one; a
\* completed entry is not patched again.
C24_GrowsUntilCompleted ==
    /\ \A i \in SameIndexPairs :
          IF i + 1 \in CompletingPositions
          THEN \/ IsPrefix(Patches[i + 1].content, Patches[i].content)
               \/ IsPrefix(Patches[i].content, Patches[i + 1].content)
          ELSE IsPrefix(Patches[i].content, Patches[i + 1].content)
    /\ \A c \in CompletingPositions :
          \A i \in (c + 1)..Len(Patches) : Patches[i].index > Patches[c].index

C24_Witness ==
    /\ \E i \in SameIndexPairs :
          /\ i + 1 \in CompletingPositions
          /\ Len(Patches[i + 1].content) < Len(Patches[i].content)
    /\ \E i \in SameIndexPairs :
          /\ i + 1 \notin CompletingPositions
          /\ Len(Patches[i].content) < Len(Patches[i + 1].content)
    /\ \E c \in CompletingPositions : c < Len(Patches)

-----------------------------------------------------------------------------
(* Specification SpecChunking: one text read in chunks, each formatted
   against the message accumulated so far *)

MaxTextLen == 4

\* One character of each kind format_gemini_output tells apart: a period,
\* an uppercase letter, anything else.
ChunkingChars == {"a", "B", "."}

InitChunking ==
    /\ InitStores /\ InitEngineIdle /\ InitRunIdle
    /\ InitFmtIdle /\ InitNormIdle /\ InitPromptIdle /\ InitBoundIdle
    /\ sp_text \in TextsUpTo(ChunkingChars, MaxTextLen)
    /\ sp_pos = 0
    /\ sp_message = <<>>
    /\ sp_out = <<>>
    /\ sp_cross = FALSE
    /\ sp_split = FALSE

\* One read of n characters: lines 699-704, then the split of lines
\* 730-756 when the boundary step runs and the finder gives `boundary`
\* (0 stands for the step not running).
FormatAndAppend ==
    /\ sp_pos < Len(sp_text)
    /\ \E n \in 1..(Len(sp_text) - sp_pos) :
        LET raw_chunk == SubSeq(sp_text, sp_pos + 1, sp_pos + n)
            formatted_chunk == format_gemini_output(raw_chunk, sp_message)
            message1 == sp_message \o formatted_chunk
        IN  \E boundary \in 0..Len(message1) :
            LET split == boundary > 0 /\ boundary < Len(message1)
            IN  /\ sp_message' = IF split
                                 THEN SubSeq(message1, boundary + 1, Len(message1))
                                 ELSE message1
                /\ sp_out' = sp_out \o formatted_chunk
                /\ sp_pos' = sp_pos + n
                /\ sp_split' = (sp_split \/ split)
                /\ sp_cross' = \/ sp_cross
                               \/ /\ sp_pos > 0
                                  /\ sp_text[sp_pos] = "."
                                  /\ IsUpperAlpha(sp_text[sp_pos + 1])
    /\ UNCHANGED <<sp_text, walVars, engineVars, fmtVars, normVars, promptVars,
                   boundVars, runVars>>

NextChunking == FormatAndAppend

SpecChunking == InitChunking /\ [][NextChunking]_vars

\* C25: formatting is independent of how the stream is cut into reads:
\* the results of formatting the chunks one by one, each against the
\* message accumulated so far (only the remainder after a boundary split),
\* concatenated, are the result of formatting the text read so far in one
\* call with an empty accumulation.
C25_ChunkingIndependent ==
    sp_out = format_gemini_output(SubSeq(sp_text, 1, sp_pos), <<>>)

C25_Witness ==
    /\ sp_pos = Len(sp_text)
    /\ sp_cross
    /\ sp_split
    /\ Len(sp_out) > Len(sp_text)
    /\ Len(sp_message) < Len(sp_out)
    /\ sp_out = format_gemini_output(sp_text, <<>>)

=============================================================================
